---- MODULE Spec2Model ----
(***************************************************************************)
(* Model of the NeonMoon info bot (src/index.js): the reminders table, the *)
(* /settz and /remind interaction handlers, and the reminder scheduler     *)
(* started by startScheduler (a setInterval callback that queries the due  *)
(* reminders and starts one asynchronous delivery per row).                *)
(*                                                                         *)
(* Time.  One unit of the model's clock is one hour of one fixed day, so   *)
(* the text a user types for `when` ("YYYY-MM-DD HH:mm") is represented by *)
(* its HH field, a sequence of characters.  The day stands for the years   *)
(* 0000 to 9999, the local times the yyyy of the format can name: its      *)
(* hours 00 to 23 are the instants toISO writes at a fixed width, and the  *)
(* ISO text stored in run_at_iso is then represented by its two-digit hour *)
(* field.  An instant after the day (hour 24 or later in UTC, reached by   *)
(* "24:00" or by a late hour in a zone west of UTC) is in a year above     *)
(* 9999, which toISO writes in its extended form, a "+" and more digits;   *)
(* an instant before the day is written with a "-".  SQLite compares       *)
(* run_at_iso as TEXT; the model keeps the text and compares it as text.   *)
(*                                                                         *)
(* Store.  Every statement of the better-sqlite3 store is a synchronous    *)
(* single-row operation that succeeds.                                     *)
(*                                                                         *)
(* Relay.  lunaChatStream (src/llm/lunacore.js) is an async generator: the *)
(* variable relay holds one call of it, the response body still on the     *)
(* network, its buffer and the fragments it has yielded.  Texts are        *)
(* sequences of one-character strings.  RelaySpec runs it.  The fields     *)
(* frames, tail, recv, seen, elapsedAt and stopped record what the         *)
(* upstream sent and what has happened; the generator does not read them.  *)
(* At a yield the generator is suspended (position "yield") until the      *)
(* consumer asks for the next fragment or ends it.                         *)
(*                                                                         *)
(* Chunker.  chunkDiscordMessage exists in two versions, the plain one of  *)
(* src/llm/ollama.js, which src/index.js imports, and the one of           *)
(* src/unnamed/part_001 that prefers paragraph, line and word breaks.  The *)
(* variable chunker holds one call of either, one loop iteration per step. *)
(* ChunkSpec runs it.                                                      *)
(*                                                                         *)
(* /luna.  The variable luna holds one interaction that asks the LLM       *)
(* service (ollamaChat of src/llm/ollama.js, one request) and posts the    *)
(* answer in chunks, one await per step; every call of Discord may reject. *)
(* The network carries bytes: the relay decodes them as a streaming        *)
(* TextDecoder does.  LunaSpec runs the interaction.                       *)
(***************************************************************************)
EXTENDS Integers, Sequences, FiniteSets, Bags, TLC

\* ---------------------------------------------------------------- bounds
MaxReminders == 2      \* rows the reminders table may hold
MaxInflight == 2       \* delivery callbacks that may be in flight at once
MaxTime == 10          \* the clock stops advancing here
LiveReminders == 1     \* rows the table may hold in the runs checked for liveness
StartTime == MaxTime - 1   \* the clock's value when the process starts

\* ---------------------------------------------------------------- inputs
Users == {"u1"}
Channels == {"c1"}
NoTZ == "none"
DEFAULT_TZ == "UTC"
\* IANA names with a fixed whole-hour offset, and one name that is no zone
TZInputs == {"Pacific/Kiritimati", "Mars/Phobos"}
\* `when` strings: an hour of the day, the hour 24 that ends the day, and
\* strings that denote no time
WhenInputs == {<<"0", "9">>, <<"2", "4">>, <<"9">>, <<"2", "5">>, <<"x", "1">>}

VARIABLES
  now,        \* the wall clock (UTC hour)
  users,      \* table users: user_id -> tz, or NoTZ when the user has no row
  reminders,  \* table reminders: sequence of rows, id = position (AUTOINCREMENT)
  ready,      \* TRUE once the ClientReady event has fired (client.once)
  timer,      \* TRUE while the interval installed by startScheduler is running
  inflight,   \* bag of running delivery callbacks [id, channel, pc]
  lastTick,   \* the latest tick: its nowISO and the rows its query returned
  posted,     \* per reminder id, the reminder messages sent to its channel
  lastFailed, \* id of the reminder whose delivery failed latest, 0 when none has
  ev,         \* the latest event
  relay,      \* one call of lunaChatStream: position, network, buffer, fragments
  chunker,    \* one call of chunkDiscordMessage: position, remaining text, chunks
  luna        \* one /luna or Ask Luna interaction: position, requests, messages

vars == <<now, users, reminders, ready, timer, inflight, lastTick, posted, lastFailed, ev,
          relay, chunker, luna>>

\* the variables of the reminder scheduler and of the interaction handlers
schedVars == <<now, users, reminders, ready, timer, inflight, lastTick, posted, lastFailed, ev>>

Ids == 1..MaxReminders

\* ------------------------------------------------------- luxon / SQLite
\* luxon zone lookup: offset of a zone in hours, validity of a zone name
IsValidZone(tz) == tz \in {"UTC", "Pacific/Kiritimati", "Atlantic/Cape_Verde"}

ZoneOffset(tz) ==
  CASE tz = "Pacific/Kiritimati" -> 14
    [] tz = "Atlantic/Cape_Verde" -> -1
    [] OTHER -> 0

\* characters are one-character strings; their code points order them
DigitChars == <<"0", "1", "2", "3", "4", "5", "6", "7", "8", "9">>

DigitTable == [c \in {DigitChars[d] : d \in 1..10} |-> (CHOOSE d \in 1..10 : DigitChars[d] = c) - 1]

IsDigit(c) == c \in DOMAIN DigitTable

DigitVal(c) == DigitTable[c]

CharCode(c) ==
  IF IsDigit(c) THEN 48 + DigitVal(c)
  ELSE IF c = "+" THEN 43
  ELSE IF c = "-" THEN 45
  ELSE 120

\* the HH field of a well-formed `when`
HourOf(when) == 10 * DigitVal(when[1]) + DigitVal(when[2])

\* the last hour of the day
LastHour == 23

\* DateTime.fromFormat(when, 'yyyy-LL-dd HH:mm', { zone: tz }): the instant, or
\* invalid; luxon takes the hours 00 to 23 and, with minute 00, hour 24, the
\* instant that ends the day
FromFormat(when, tz) ==
  IF Len(when) = 2 /\ IsDigit(when[1]) /\ IsDigit(when[2]) /\ HourOf(when) <= LastHour + 1
  THEN [isValid |-> TRUE, ts |-> HourOf(when) - ZoneOffset(tz)]
  ELSE [isValid |-> FALSE, ts |-> 0]

\* a number below 100 written with two digits
TwoDigits(n) == <<DigitChars[(n \div 10) + 1], DigitChars[(n % 10) + 1]>>

\* dt.toUTC().toISO(): zero-padded text of a fixed width for the instants of
\* the day; the extended form, a sign and two digits more, for an instant
\* after it (a year above 9999) and for an instant before it (a year below 0)
ToISO(ts) ==
  IF ts > LastHour THEN <<"+", "0", "0">> \o TwoDigits(ts)
  ELSE IF ts < 0 THEN <<"-", "0", "0">> \o TwoDigits(0 - ts)
  ELSE TwoDigits(ts)

\* SQLite TEXT comparison (BINARY collation): a <= b
RECURSIVE TextLeq(_, _)
TextLeq(a, b) ==
  IF a = <<>> THEN TRUE
  ELSE IF b = <<>> THEN FALSE
  ELSE IF a[1] # b[1] THEN CharCode(a[1]) < CharCode(b[1])
  ELSE TextLeq(Tail(a), Tail(b))

\* ------------------------------------------------------------ statements
\* users lookup of the remind handler: row?.tz || DEFAULT_TZ
UserZone(u) == IF users[u] = NoTZ THEN DEFAULT_TZ ELSE users[u]

\* insertReminder.run(user, channel, guild, text, runAtUTC, created): delivered = 0
InsertReminder(rs, u, c, iso) ==
  Append(rs, [user_id |-> u, channel_id |-> c, run_at_iso |-> iso, delivered |-> FALSE])

\* mutant: the query without its delivered=0 condition
IsDue_IgnoreDelivered(r, nowISO) == TextLeq(r.run_at_iso, nowISO)

\* WHERE delivered=0 AND run_at_iso <= ?
IsDue(r, nowISO) == ~r.delivered /\ TextLeq(r.run_at_iso, nowISO)

DueIds(rs, nowISO) == {i \in 1..Len(rs) : IsDue(rs[i], nowISO)}

\* ORDER BY run_at_iso ASC over a sequence of ids
Ordered(rs, s) ==
  \A a, b \in 1..Len(s) : a < b => TextLeq(rs[s[a]].run_at_iso, rs[s[b]].run_at_iso)

\* dueReminders.all(nowISO): every result the statement may return (rows with
\* equal run_at_iso come in an order the statement does not fix)
DueReminders(rs, nowISO) ==
  LET D == DueIds(rs, nowISO)
  IN {s \in [1..Cardinality(D) -> D] :
        /\ \A a, b \in 1..Cardinality(D) : a # b => s[a] # s[b]
        /\ Ordered(rs, s)}

\* mutant: SET delivered = 1 - delivered
MarkDelivered_Toggle(rs, id) == [rs EXCEPT ![id].delivered = ~@]

\* markDelivered.run(id): UPDATE reminders SET delivered=1 WHERE id=?
MarkDelivered(rs, id) == [rs EXCEPT ![id].delivered = TRUE]

\* --------------------------------------------------------------- helpers
Range(s) == {s[k] : k \in 1..Len(s)}

Task(i, c, pc) == [id |-> i, channel |-> c, pc |-> pc]

InflightOf(i) ==
  LET T == {t \in BagToSet(inflight) : t.id = i}
  IN IF T = {} THEN 0
     ELSE LET RECURSIVE Sum(_)
              Sum(S) == IF S = {} THEN 0
                        ELSE LET t == CHOOSE x \in S : TRUE
                             IN CopiesIn(t, inflight) + Sum(S \ {t})
          IN Sum(T)

\* ------------------------------------------------------- relay: bounds
MaxFrames == 2         \* complete frames a response body may hold
MaxRead == 3           \* bytes one reader.read() may deliver, when it does not deliver all

\* ------------------------------------------------------- relay: inputs
\* timeoutMs: no timeout, and a timeout greater than zero
TimeoutInputs == {0, 1}
\* HTTP statuses of the upstream response: a 2xx with a body, a 2xx
\* without one, and one that is not 2xx
StatusInputs == {200, 204, 500}

\* the event kinds a frame may name ("" stands for a frame without event line)
KindChars ==
  [message |-> <<"m", "e", "s", "s", "a", "g", "e">>,
   done |-> <<"d", "o", "n", "e">>,
   error |-> <<"e", "r", "r", "o", "r">>]

\* frames the upstream may send: the event kind and, per data line, the raw
\* text that follows "data:" on the wire. "U+E9" stands for the one
\* character of the inputs that takes two bytes on the wire.
FrameInputs ==
  {[kind |-> "", datas |-> << <<" ", "h", "i">> >>],
   [kind |-> "", datas |-> << <<" ", " ", "w">> >>],
   [kind |-> "message", datas |-> << <<"U+E9">>, <<" ", "b">> >>],
   [kind |-> "", datas |-> << <<>> >>],
   [kind |-> "done", datas |-> << <<" ", "z">> >>],
   [kind |-> "error", datas |-> << <<" ", "b", "o", "o", "m">> >>]}

\* bytes that may follow the last blank-line delimiter of a body
TailInputs == {<<>>, <<"d", "a", "t", "a", ":", " ", "t">>, <<"d", "a", "t", "a", ":", "t", "\n">>}

\* ------------------------------------------------- relay: wire encoding
EventPrefix == <<"e", "v", "e", "n", "t", ":">>

DataPrefix == <<"d", "a", "t", "a", ":">>

\* the lines of a frame as the upstream writes them
RECURSIVE DataLines(_)
DataLines(datas) ==
  IF datas = <<>> THEN <<>>
  ELSE DataPrefix \o Head(datas) \o <<"\n">> \o DataLines(Tail(datas))

\* one frame on the wire: its lines, then the blank line that delimits it
EncodeFrame(f) ==
  (IF f.kind = "" THEN <<>> ELSE EventPrefix \o <<" ">> \o KindChars[f.kind] \o <<"\n">>)
    \o DataLines(f.datas) \o <<"\n">>

RECURSIVE EncodeFrames(_)
EncodeFrames(fs) ==
  IF fs = <<>> THEN <<>> ELSE EncodeFrame(Head(fs)) \o EncodeFrames(Tail(fs))

\* the response body of a call: its complete frames, then the tail
Body(fs, tail) == EncodeFrames(fs) \o tail

\* the bytes of a text on the wire (UTF-8): "U+E9" takes the two bytes
\* 0xC3 0xA9, every other character of the inputs is one byte
RECURSIVE Utf8(_)
Utf8(s) ==
  IF s = <<>> THEN <<>>
  ELSE (IF Head(s) = "U+E9" THEN <<"0xC3", "0xA9">> ELSE <<Head(s)>>) \o Utf8(Tail(s))

\* the characters a TextDecoder gives for a run of bytes: 0xC3 0xA9 is
\* "U+E9", a byte that cannot be decoded is U+FFFD, and a lead byte that
\* ends the run gives nothing yet
Decoded(bytes) ==
  LET At(i) ==
        IF bytes[i] = "0xC3"
        THEN IF i = Len(bytes) \/ bytes[i + 1] = "0xA9" THEN "" ELSE "U+FFFD"
        ELSE IF bytes[i] = "0xA9"
             THEN IF i > 1 /\ bytes[i - 1] = "0xC3" THEN "U+E9" ELSE "U+FFFD"
             ELSE bytes[i]
  IN SelectSeq([i \in 1..Len(bytes) |-> At(i)], LAMBDA c : c # "")

\* the lead byte a streaming TextDecoder holds back at the end of a run
Held(bytes) ==
  IF bytes # <<>> /\ bytes[Len(bytes)] = "0xC3" THEN <<"0xC3">> ELSE <<>>

\* the decoder is flushed: a lead byte held back gives U+FFFD
Flushed(bytes) ==
  Decoded(bytes) \o (IF Held(bytes) # <<>> THEN <<"U+FFFD">> ELSE <<>>)

\* mutant: every read is decoded on its own, without { stream: true }
Decode_NoStream(pending, value) == [text |-> Flushed(value), pending |-> <<>>]

\* decoder.decode(value, { stream: true }): an incomplete character at the
\* end of value is held back for the next call
Decode(pending, value) ==
  [text |-> Decoded(pending \o value), pending |-> Held(pending \o value)]

\* res.text(): the whole body decoded at once
TextOf(bytes) == Flushed(bytes)

\* --------------------------------------------- relay: String operations
\* s.slice(from) / s.slice(from, to), with JS's 0-based indices
Slice(s, from, to) == SubSeq(s, from + 1, to)

SliceFrom(s, from) == SubSeq(s, from + 1, Len(s))

\* s.startsWith(p)
StartsWith(s, p) == Len(s) >= Len(p) /\ SubSeq(s, 1, Len(p)) = p

\* buf.indexOf('\n\n'): 0-based index of the first occurrence, or -1
IndexOfBlankLine(s) ==
  LET hits == {i \in 1..(Len(s) - 1) : s[i] = "\n" /\ s[i + 1] = "\n"}
  IN IF hits = {} THEN -1 ELSE (CHOOSE i \in hits : \A j \in hits : i <= j) - 1

IsSpace(c) == c \in {" ", "\n", "\r", "\t"}

\* s.trim()
RECURSIVE TrimStart(_)
TrimStart(s) == IF s # <<>> /\ IsSpace(Head(s)) THEN TrimStart(Tail(s)) ELSE s

RECURSIVE TrimEnd(_)
TrimEnd(s) ==
  IF s # <<>> /\ IsSpace(s[Len(s)]) THEN TrimEnd(SubSeq(s, 1, Len(s) - 1)) ELSE s

Trim(s) == TrimEnd(TrimStart(s))

\* frame.split(/\r?\n/): cur is the line being collected
RECURSIVE SplitLines(_, _)
SplitLines(s, cur) ==
  IF s = <<>> THEN <<cur>>
  ELSE IF Head(s) = "\n" THEN <<cur>> \o SplitLines(Tail(s), <<>>)
  ELSE IF Head(s) = "\r" /\ Len(s) >= 2 /\ s[2] = "\n"
       THEN <<cur>> \o SplitLines(Tail(Tail(s)), <<>>)
  ELSE SplitLines(Tail(s), Append(cur, Head(s)))

\* datas.join('\n')
RECURSIVE Join(_)
Join(datas) ==
  IF datas = <<>> THEN <<>>
  ELSE IF Len(datas) = 1 THEN Head(datas)
  ELSE Head(datas) \o <<"\n">> \o Join(Tail(datas))

\* ------------------------------------------------ relay: lunaChatStream
\* the fragment yielded for an error frame
FallbackText == <<"I'm having trouble connecting to the main server, can someone help me ping Skeath?">>

\* for (const rawLine of frame.split(/\r?\n/)) { ... }: the event kind and
\* the data payloads after the lines seen so far
RECURSIVE ParseLines(_, _, _)
ParseLines(lines, event, datas) ==
  IF lines = <<>> THEN [event |-> event, datas |-> datas]
  ELSE LET rawLine == Head(lines)
       IN IF StartsWith(rawLine, EventPrefix)
          THEN ParseLines(Tail(lines), Trim(SliceFrom(rawLine, 6)), datas)
          ELSE IF StartsWith(rawLine, DataPrefix)
          THEN LET payload == SliceFrom(rawLine, 5)
                   stripped == IF StartsWith(payload, <<" ">>) THEN SliceFrom(payload, 1)
                               ELSE payload
               IN ParseLines(Tail(lines), event, Append(datas, stripped))
          ELSE ParseLines(Tail(lines), event, datas)

\* let event = 'message'; const datas = []; ...; const payload = datas.join('\n')
ParseFrame(frame) ==
  LET p == ParseLines(SplitLines(frame, <<>>), KindChars.message, <<>>)
  IN [event |-> p.event, payload |-> Join(p.datas)]

\* mutant: a done frame is handled as a message frame
EmitFrame_DoneYields(event, payload) ==
  [frags |-> (IF event = KindChars.error THEN <<FallbackText>> ELSE <<>>)
               \o (IF payload # <<>> THEN <<payload>> ELSE <<>>),
   return |-> FALSE]

\* the three ifs that end an iteration of the frame loop: the fragments the
\* frame yields, and whether the generator returns
EmitFrame(event, payload) ==
  LET fallback == IF event = KindChars.error THEN <<FallbackText>> ELSE <<>>
  IN IF event = KindChars.done
     THEN [frags |-> fallback, return |-> TRUE]
     ELSE [frags |-> fallback \o (IF payload # <<>> THEN <<payload>> ELSE <<>>),
           return |-> FALSE]

\* res.ok
IsOk(status) == status >= 200 /\ status <= 299

\* the statuses whose response has no body: res.body is null
NullBodyStatuses == {101, 103, 204, 205, 304}

NoError == [kind |-> "none"]

\* position "idle": lunaChatStream has not been called
RelayIdle ==
  [pc |-> "idle", timeoutMs |-> 0, timer |-> FALSE, aborted |-> FALSE, elapsedAt |-> "none",
   status |-> 0, frames |-> <<>>, tail |-> <<>>, net |-> <<>>,
   recv |-> <<>>, dec |-> <<>>, buf |-> <<>>, seen |-> 0, out |-> <<>>,
   pending |-> <<>>, ret |-> FALSE, stopped |-> FALSE, err |-> NoError]

\* ------------------------------------------------------------- chunker
MaxText == 6           \* characters an input text may hold
MaxChunk == 4          \* the largest maxLen a call may pass

\* the two versions of chunkDiscordMessage the repository holds
ChunkVersions == {"llm/ollama.js", "unnamed/part_001"}

\* characters of an input text: letters, the space and the line break
TextChars == {"a", "b", " ", "\n"}

\* every text of at most MaxText characters
TextInputs == UNION {[1..n -> TextChars] : n \in 0..MaxText}

\* s.lastIndexOf(pat, position): 0-based index of the last occurrence that
\* starts at or before position, or -1
LastIndexOf(s, pat, position) ==
  LET start == IF position < Len(s) - Len(pat) THEN position ELSE Len(s) - Len(pat)
      hits == {i \in 0..start : SubSeq(s, i + 1, i + Len(pat)) = pat}
  IN IF hits = {} THEN -1 ELSE CHOOSE i \in hits : \A j \in hits : j <= i

\* String(text).split(/\n{2,}/): cur is the paragraph being collected
RECURSIVE SplitParas(_, _)
SplitParas(s, cur) ==
  IF s = <<>> THEN <<cur>>
  ELSE IF Len(s) >= 2 /\ s[1] = "\n" /\ s[2] = "\n"
       THEN LET RECURSIVE SkipBreaks(_)
                SkipBreaks(t) == IF t # <<>> /\ Head(t) = "\n" THEN SkipBreaks(Tail(t)) ELSE t
            IN <<cur>> \o SplitParas(SkipBreaks(s), <<>>)
  ELSE SplitParas(Tail(s), Append(cur, Head(s)))

\* Math.floor(maxLen * 0.6)
MinFill(maxLen) == (maxLen * 6) \div 10

\* llm/ollama.js: chunks.push(remaining.slice(0, maxLen)); remaining = remaining.slice(maxLen)
CutPlain(remaining, maxLen) ==
  [chunk |-> Slice(remaining, 0, maxLen), rest |-> SliceFrom(remaining, maxLen)]

\* unnamed/part_001, pushSmart: the cut index of one iteration
CutIndex(segment, maxLen) ==
  LET para == LastIndexOf(segment, <<"\n", "\n">>, maxLen)
      line == LastIndexOf(segment, <<"\n">>, maxLen)
      word == LastIndexOf(segment, <<" ">>, maxLen)
      cut == IF para >= 0 THEN para ELSE IF line >= 0 THEN line ELSE word
  IN IF cut < MinFill(maxLen) THEN maxLen ELSE cut

\* mutant: the text left after a cut keeps its leading whitespace
CutSmart_NoTrimStart(segment, maxLen) ==
  LET cut == CutIndex(segment, maxLen)
  IN [chunk |-> TrimEnd(Slice(segment, 0, cut)), rest |-> SliceFrom(segment, cut)]

\* unnamed/part_001, pushSmart: chunks.push(segment.slice(0, cut).trimEnd());
\* segment = segment.slice(cut).trimStart()
CutSmart(segment, maxLen) ==
  LET cut == CutIndex(segment, maxLen)
  IN [chunk |-> TrimEnd(Slice(segment, 0, cut)), rest |-> TrimStart(SliceFrom(segment, cut))]

\* mutant: the cut is made one character too late
Cut_OneTooLate(version, segment, maxLen) ==
  IF version = "llm/ollama.js" THEN CutPlain(segment, maxLen + 1)
  ELSE CutSmart(segment, maxLen + 1)

\* mutant: the remaining text starts one character after the cut
Cut_SkipsOne(version, segment, maxLen) ==
  LET c == IF version = "llm/ollama.js" THEN CutPlain(segment, maxLen)
           ELSE CutSmart(segment, maxLen)
  IN [chunk |-> c.chunk, rest |-> IF c.rest = <<>> THEN <<>> ELSE Tail(c.rest)]

\* one iteration of the while loop of a version
Cut(version, segment, maxLen) ==
  IF version = "llm/ollama.js" THEN CutPlain(segment, maxLen) ELSE CutSmart(segment, maxLen)

\* position "idle": chunkDiscordMessage has not been called
ChunkerIdle ==
  [pc |-> "idle", version |-> "", text |-> <<>>, maxLen |-> 0,
   paras |-> <<>>, segment |-> <<>>, chunks |-> <<>>]

\* ------------------------------------------------- /luna and Ask Luna
MaxContent == 7        \* characters an answer of the LLM service may hold
DefaultMaxLen == 2     \* the default maxLen of chunkDiscordMessage, scaled (1900)

\* the slash command /luna and the message context menu command Ask Luna
LunaKinds == {"luna", "Ask Luna"}

\* interaction.isChatInputCommand(): true of slash commands only
IsChatInputCommand(kind) == kind = "luna"

\* the text of the request: the option `message`, or that of the target message
QInputs == {<<>>, <<" ">>, <<"h", "i">>}

\* how a call of the LLM service may fail: a response that is not ok, a
\* fetch that rejects, a body that is no JSON
FailureInputs == {"http", "network", "json"}

\* chunks[0] || '(empty response)'
EmptyResponse ==
  <<"(", "e", "m", "p", "t", "y", " ", "r", "e", "s", "p", "o", "n", "s", "e", ")">>

\* mutant: a failed request is sent again, up to two more times
AfterFailure_Retry(requests, failure) ==
  IF requests < 3 /\ failure \in {"http", "network"} THEN "retry" ELSE "throw"

\* ollamaChat after a request that failed: it throws
AfterFailure(requests, failure) == "throw"

\* chunkDiscordMessage(text, maxLen) of llm/ollama.js, from call to return
RECURSIVE chunkDiscordMessage(_, _)
chunkDiscordMessage(remaining, maxLen) ==
  IF Len(remaining) > maxLen
  THEN LET c == CutPlain(remaining, maxLen)
       IN <<c.chunk>> \o chunkDiscordMessage(c.rest, maxLen)
  ELSE IF remaining # <<>> THEN <<remaining>> ELSE <<>>

\* position "idle": no interaction has arrived. msgs are the messages the
\* handler has posted to the channel: the text passed to styleAnsi (or the
\* prompt), the number k of the segment (0 for the prompt) and the message
\* replied to (its position in msgs, 0 for none)
LunaIdle ==
  [pc |-> "idle", kind |-> "", q |-> <<>>, requests |-> 0, err |-> "", content |-> <<>>,
   chunks |-> <<>>, i |-> 0, promptMsg |-> 0, first |-> 0, msgs |-> <<>>, ack |-> "",
   notice |-> FALSE]

\* ------------------------------------------------------------------ Init
Init ==
  /\ now = StartTime
  /\ users = [u \in Users |-> NoTZ]
  /\ reminders = <<>>
  /\ ready = FALSE
  /\ timer = FALSE
  /\ inflight = EmptyBag
  /\ lastTick = [nowISO |-> <<>>, rows |-> <<>>]
  /\ posted = [i \in Ids |-> 0]
  /\ lastFailed = 0
  /\ ev = [kind |-> "init"]
  /\ relay = RelayIdle
  /\ chunker = ChunkerIdle
  /\ luna = LunaIdle

\* --------------------------------------------------------------- actions
\* the wall clock advances
Advance ==
  /\ now < MaxTime
  /\ now' = now + 1
  /\ ev' = [kind |-> "advance"]
  /\ UNCHANGED <<users, reminders, ready, timer, inflight, lastTick, posted, lastFailed, relay, chunker, luna>>

\* client.once(ClientReady): startScheduler() installs the interval
ClientReady ==
  /\ ~ready
  /\ ready' = TRUE
  /\ timer' = TRUE
  /\ ev' = [kind |-> "ready"]
  /\ UNCHANGED <<now, users, reminders, inflight, lastTick, posted, lastFailed, relay, chunker, luna>>

\* /settz
SetTZ(u, tz) ==
  /\ ready
  /\ users' = IF IsValidZone(tz) THEN [users EXCEPT ![u] = tz] ELSE users
  /\ ev' = [kind |-> "settz", reply |-> IF IsValidZone(tz) THEN "saved" ELSE "invalid_tz"]
  /\ UNCHANGED <<now, reminders, ready, timer, inflight, lastTick, posted, lastFailed, relay, chunker, luna>>

\* mutant: the handler without its past-time check
RemindReply_NoPastCheck(dt, nowTs) == IF ~dt.isValid THEN "parse_error" ELSE "saved"

\* the two checks of the /remind handler, in the order the handler makes them
RemindReply(dt, nowTs) ==
  IF ~dt.isValid THEN "parse_error"
  ELSE IF dt.ts < nowTs THEN "past"
  ELSE "saved"

\* /remind
Remind(u, c, when) ==
  LET tz == UserZone(u)
      dt == FromFormat(when, tz)
      reply == RemindReply(dt, now)
  IN /\ ready
     /\ reply = "saved" => Len(reminders) < MaxReminders
     /\ reminders' = IF reply = "saved"
                     THEN InsertReminder(reminders, u, c, ToISO(dt.ts))
                     ELSE reminders
     /\ ev' = [kind |-> "remind", reply |-> reply]
     /\ UNCHANGED <<now, users, ready, timer, inflight, lastTick, posted, lastFailed, relay, chunker, luna>>

\* one firing of the interval callback: query, then rows.forEach(async r => ...)
\* runs every callback up to its first await
Tick ==
  /\ timer
  /\ \E rows \in DueReminders(reminders, ToISO(now)) :
       /\ BagCardinality(inflight) + Len(rows) <= MaxInflight
       /\ inflight' = inflight (+)
            SetToBag({Task(i, reminders[i].channel_id, "fetch") : i \in Range(rows)})
       /\ lastTick' = [nowISO |-> ToISO(now), rows |-> rows]
       /\ ev' = [kind |-> "tick", prev |-> lastTick]
  /\ UNCHANGED <<now, users, reminders, ready, timer, posted, lastFailed, relay, chunker, luna>>

\* await client.channels.fetch(r.channel_id) resolves
FetchOk(t) ==
  /\ BagIn(t, inflight) /\ t.pc = "fetch"
  /\ inflight' = (inflight (-) SetToBag({t})) (+) SetToBag({Task(t.id, t.channel, "send")})
  /\ ev' = [kind |-> "fetched"]
  /\ UNCHANGED <<now, users, reminders, ready, timer, lastTick, posted, lastFailed, relay, chunker, luna>>

\* mutant: the send is not awaited, the update runs whatever becomes of it
AwaitSend_MarkAlways(rs, id, ok) == MarkDelivered(rs, id)

\* mutant: the catch block gives the reminder up by marking it delivered
CatchDelivery_GiveUp(rs, tm, id) == [reminders |-> MarkDelivered(rs, id), timer |-> tm]

\* mutant: the rejection is not caught and ends the process, and its interval
CatchDelivery_Rethrow(rs, tm, id) == [reminders |-> rs, timer |-> FALSE]

\* await channel.send(...); markDelivered.run(r.id): the update runs only
\* when the awaited send resolved (ok), a rejection skips it
AwaitSend(rs, id, ok) == IF ok THEN MarkDelivered(rs, id) ELSE rs

\* catch (e) { console.error('Failed to deliver reminder', r, e) }: the rows
\* and the interval after a rejected fetch or send of reminder id
CatchDelivery(rs, tm, id) == [reminders |-> rs, timer |-> tm]

\* the fetch or the send rejects
DeliveryFail(t) ==
  /\ BagIn(t, inflight)
  /\ inflight' = inflight (-) SetToBag({t})
  /\ LET rs == IF t.pc = "send" THEN AwaitSend(reminders, t.id, FALSE) ELSE reminders
         after == CatchDelivery(rs, timer, t.id)
     IN reminders' = after.reminders /\ timer' = after.timer
  /\ lastFailed' = t.id
  /\ ev' = [kind |-> "failed"]
  /\ UNCHANGED <<now, users, ready, lastTick, posted, relay, chunker, luna>>

\* await channel.send(...) resolves; markDelivered.run(r.id) follows in the
\* same continuation
SendOk(t) ==
  /\ BagIn(t, inflight) /\ t.pc = "send"
  /\ inflight' = inflight (-) SetToBag({t})
  /\ posted' = [posted EXCEPT ![t.id] = @ + 1]
  /\ reminders' = AwaitSend(reminders, t.id, TRUE)
  /\ ev' = [kind |-> "sent"]
  /\ UNCHANGED <<now, users, ready, timer, lastTick, lastFailed, relay, chunker, luna>>

Tasks == {Task(i, c, pc) : i \in Ids, c \in Channels, pc \in {"fetch", "send"}}

Next ==
  \/ Advance
  \/ ClientReady
  \/ \E u \in Users, tz \in TZInputs : SetTZ(u, tz)
  \/ \E u \in Users, c \in Channels, when \in WhenInputs : Remind(u, c, when)
  \/ Tick
  \/ \E t \in Tasks : FetchOk(t)
  \/ \E t \in Tasks : DeliveryFail(t)
  \/ \E t \in Tasks : SendOk(t)

Spec == Init /\ [][Next]_vars

\* a delivery callback reaches its next await, or settles
Settle == \E t \in Tasks : FetchOk(t) \/ DeliveryFail(t) \/ SendOk(t)

\* Fairness: the ready event arrives and the interval keeps firing; every
\* pending fetch or send settles; and, for each reminder, a fetch and a send
\* that are attempted again and again do not fail every time.
FairSpec ==
  /\ Init /\ [][Next /\ Len(reminders') <= LiveReminders]_vars
  /\ WF_vars(ClientReady)
  /\ WF_vars(Tick)
  /\ WF_vars(Settle)
  /\ \A i \in 1..LiveReminders : SF_vars(\E t \in Tasks : t.id = i /\ FetchOk(t))
  /\ \A i \in 1..LiveReminders : SF_vars(\E t \in Tasks : t.id = i /\ SendOk(t))

TypeOK ==
  /\ now \in StartTime..MaxTime
  /\ Len(reminders) <= MaxReminders
  /\ BagCardinality(inflight) <= MaxInflight

\* ------------------------------------------------------- relay: actions
\* lunaChatStream({ timeoutMs, ... }) is called and runs up to `await fetch`;
\* the upstream will answer with status and a body of frames and tail
Call(timeoutMs, status, frames, tail) ==
  /\ relay.pc = "idle"
  /\ status \in NullBodyStatuses => frames = <<>> /\ tail = <<>>
  /\ relay' = [relay EXCEPT !.pc = "fetch", !.timeoutMs = timeoutMs,
                            !.timer = (timeoutMs > 0), !.status = status,
                            !.frames = frames, !.tail = tail,
                            !.net = Utf8(Body(frames, tail))]
  /\ UNCHANGED <<schedVars, chunker, luna>>

\* the timeout elapses. The timer, when it is still set, calls
\* controller.abort(): a pending fetch rejects with the abort. A fetch that
\* rejected on its own skipped clearTimeout, so the timer is still set
\* after the generator has thrown, and fires then
Elapse ==
  /\ \/ relay.pc \in {"fetch", "text", "read", "yield"}
     \/ relay.pc = "thrown" /\ relay.timer
  /\ relay.timeoutMs > 0 /\ relay.elapsedAt = "none"
  /\ relay' = IF relay.timer
              THEN [relay EXCEPT !.elapsedAt = relay.pc, !.timer = FALSE, !.aborted = TRUE,
                                 !.pc = "thrown",
                                 !.err = IF relay.pc = "fetch" THEN [kind |-> "abort"] ELSE @]
              ELSE [relay EXCEPT !.elapsedAt = relay.pc]
  /\ UNCHANGED <<schedVars, chunker, luna>>

\* mutant: the response is read as a stream whatever its status
AfterFetch_NoStatusCheck(status) == "read"

\* if (to) clearTimeout(to); if (!res.ok) ...; res.body.getReader(): where
\* the generator goes next. res.body is null for a status without body, and
\* getReader() of null throws a TypeError
AfterFetch(status) ==
  IF ~IsOk(status) THEN "text"
  ELSE IF status \in NullBodyStatuses THEN "throw"
  ELSE "read"

\* await fetch(...) resolves with the response headers
FetchResolved ==
  /\ relay.pc = "fetch"
  /\ relay' = IF AfterFetch(relay.status) = "throw"
              THEN [relay EXCEPT !.timer = FALSE, !.pc = "thrown",
                                 !.err = [kind |-> "type"]]
              ELSE [relay EXCEPT !.timer = FALSE, !.pc = AfterFetch(relay.status)]
  /\ UNCHANGED <<schedVars, chunker, luna>>

\* await fetch(...) rejects (transport failure)
FetchRejected ==
  /\ relay.pc = "fetch"
  /\ relay' = [relay EXCEPT !.pc = "thrown", !.err = [kind |-> "network"]]
  /\ UNCHANGED <<schedVars, chunker, luna>>

\* const t = await res.text().catch(() => ''); throw new Error(... status, t)
TextSettled(ok) ==
  /\ relay.pc = "text"
  /\ relay' = [relay EXCEPT !.pc = "thrown", !.net = <<>>,
                            !.err = [kind |-> "http", status |-> relay.status, read |-> ok,
                                     body |-> IF ok THEN TextOf(relay.net) ELSE <<>>]]
  /\ UNCHANGED <<schedVars, chunker, luna>>

\* await reader.read() resolves with k more bytes: buf += decoder.decode(value)
ReadChunk(k) ==
  /\ relay.pc = "read" /\ IndexOfBlankLine(relay.buf) = -1
  /\ k >= 1 /\ k <= Len(relay.net)
  /\ LET d == Decode(relay.dec, SubSeq(relay.net, 1, k))
     IN relay' = [relay EXCEPT !.buf = @ \o d.text, !.dec = d.pending,
                               !.recv = @ \o SubSeq(relay.net, 1, k),
                               !.net = SubSeq(@, k + 1, Len(@))]
  /\ UNCHANGED <<schedVars, chunker, luna>>

\* mutant: what is left in the buffer at the end is parsed as a last frame
AtEnd_FlushBuffer(buf) ==
  LET f == ParseFrame(buf) IN IF f.payload # <<>> THEN <<f.payload>> ELSE <<>>

\* if (done) break: the fragments yielded for what is left in the buffer
AtEnd(buf) == <<>>

\* await reader.read() resolves with done: the loop breaks and the generator returns
ReadDone ==
  /\ relay.pc = "read" /\ IndexOfBlankLine(relay.buf) = -1
  /\ relay.net = <<>>
  /\ relay' = [relay EXCEPT !.pc = "returned", !.out = @ \o AtEnd(relay.buf)]
  /\ UNCHANGED <<schedVars, chunker, luna>>

\* await reader.read() rejects (the connection breaks)
ReadRejected ==
  /\ relay.pc = "read" /\ IndexOfBlankLine(relay.buf) = -1
  /\ relay' = [relay EXCEPT !.pc = "thrown", !.err = [kind |-> "network"]]
  /\ UNCHANGED <<schedVars, chunker, luna>>

\* one iteration of while ((sep = buf.indexOf('\n\n')) !== -1) { ... }, up
\* to its first yield, where the generator is suspended, or to its end
Frame ==
  /\ relay.pc = "read" /\ IndexOfBlankLine(relay.buf) # -1
  /\ LET sep == IndexOfBlankLine(relay.buf)
         f == ParseFrame(Slice(relay.buf, 0, sep))
         e == EmitFrame(f.event, f.payload)
     IN relay' =
          IF e.frags = <<>>
          THEN [relay EXCEPT !.buf = SliceFrom(@, sep + 2), !.seen = @ + 1,
                             !.pc = IF e.return THEN "returned" ELSE "read"]
          ELSE [relay EXCEPT !.buf = SliceFrom(@, sep + 2), !.seen = @ + 1,
                             !.out = Append(@, Head(e.frags)),
                             !.pending = Tail(e.frags), !.ret = e.return,
                             !.pc = "yield"]
  /\ UNCHANGED <<schedVars, chunker, luna>>

\* the consumer asks for the next fragment: the generator goes on from the
\* yield it is suspended at, to the next yield of the frame or to its end
Resume ==
  /\ relay.pc = "yield"
  /\ relay' =
       IF relay.pending # <<>>
       THEN [relay EXCEPT !.out = Append(@, Head(relay.pending)), !.pending = Tail(@)]
       ELSE [relay EXCEPT !.pc = IF relay.ret THEN "returned" ELSE "read", !.ret = FALSE]
  /\ UNCHANGED <<schedVars, chunker, luna>>

\* the consumer leaves its loop: return() ends the generator at the yield
\* it is suspended at
Stop ==
  /\ relay.pc = "yield"
  /\ relay' = [relay EXCEPT !.pc = "returned", !.pending = <<>>, !.ret = FALSE,
                            !.stopped = TRUE]
  /\ UNCHANGED <<schedVars, chunker, luna>>

RECURSIVE SeqsUpTo(_, _)
SeqsUpTo(S, n) ==
  IF n = 0 THEN {<<>>}
  ELSE LET shorter == SeqsUpTo(S, n - 1)
       IN shorter \cup {Append(s, x) : s \in {t \in shorter : Len(t) = n - 1}, x \in S}

\* every sequence of at most MaxFrames frames
BodyInputs == SeqsUpTo(FrameInputs, MaxFrames)

\* the sizes a read may have: up to MaxRead bytes, or all that is left
ReadSizes == (1..MaxRead) \cup {Len(relay.net)}

RelayNext ==
  \/ /\ relay.pc = "idle"
     /\ \E t \in TimeoutInputs, st \in StatusInputs, fs \in BodyInputs, tail \in TailInputs :
          Call(t, st, fs, tail)
  \/ Elapse
  \/ FetchResolved
  \/ FetchRejected
  \/ \E ok \in BOOLEAN : TextSettled(ok)
  \/ \E k \in ReadSizes : ReadChunk(k)
  \/ ReadDone
  \/ ReadRejected
  \/ Frame
  \/ Resume
  \/ Stop

RelaySpec == Init /\ [][RelayNext]_vars

\* ----------------------------------------------------- chunker: actions
\* chunkDiscordMessage(text, maxLen) is called and runs up to its loop
\* (part_001 returns [''] at once when the text is empty)
ChunkCall(version, text, maxLen) ==
  /\ chunker.pc = "idle"
  /\ chunker' =
       IF version = "llm/ollama.js"
       THEN [chunker EXCEPT !.pc = "loop", !.version = version, !.text = text,
                            !.maxLen = maxLen, !.segment = text]
       ELSE IF text = <<>>
       THEN [chunker EXCEPT !.pc = "done", !.version = version, !.text = text,
                            !.maxLen = maxLen, !.chunks = << <<>> >>]
       ELSE LET paras == SplitParas(text, <<>>)
            IN [chunker EXCEPT !.pc = "loop", !.version = version, !.text = text,
                               !.maxLen = maxLen, !.segment = Head(paras),
                               !.paras = Tail(paras)]
  /\ UNCHANGED <<schedVars, relay, luna>>

\* while (segment.length > maxLen) { ... }: one iteration
ChunkCut ==
  /\ chunker.pc = "loop" /\ Len(chunker.segment) > chunker.maxLen
  /\ LET c == Cut(chunker.version, chunker.segment, chunker.maxLen)
     IN chunker' = [chunker EXCEPT !.chunks = Append(@, c.chunk), !.segment = c.rest]
  /\ UNCHANGED <<schedVars, relay, luna>>

\* the loop ends: if (segment) chunks.push(segment); then the next
\* paragraph, or return chunks
ChunkPush ==
  /\ chunker.pc = "loop" /\ Len(chunker.segment) <= chunker.maxLen
  /\ LET chunks == IF chunker.segment # <<>> THEN Append(chunker.chunks, chunker.segment)
                   ELSE chunker.chunks
     IN chunker' =
          IF chunker.paras = <<>>
          THEN [chunker EXCEPT !.pc = "done", !.chunks = chunks, !.segment = <<>>]
          ELSE [chunker EXCEPT !.chunks = chunks, !.segment = Head(chunker.paras),
                               !.paras = Tail(chunker.paras)]
  /\ UNCHANGED <<schedVars, relay, luna>>

ChunkNext ==
  \/ /\ chunker.pc = "idle"
     /\ \E v \in ChunkVersions, text \in TextInputs, maxLen \in 1..MaxChunk :
          ChunkCall(v, text, maxLen)
  \/ ChunkCut
  \/ ChunkPush

ChunkSpec == Init /\ [][ChunkNext]_vars

\* ------------------------------------------ /luna and Ask Luna: actions
\* the interaction arrives and the handler runs up to its first await:
\* `if (!interaction.isChatInputCommand()) return;` comes first, so the
\* handler returns at once for Ask Luna and never enters the branch
\* written for it
Invoke(kind, q) ==
  /\ luna.pc = "idle"
  /\ kind = "luna" => q # <<>>
  /\ luna' = IF ~IsChatInputCommand(kind)
             THEN [luna EXCEPT !.pc = "done", !.kind = kind, !.q = q]
             ELSE [luna EXCEPT !.pc = "ack", !.kind = kind, !.q = q]
  /\ UNCHANGED <<schedVars, relay, chunker>>

\* await interaction.reply({ content: 'Thinking...', ephemeral: true })
\* resolves; ollamaChat is called and sends its request
AckOk ==
  /\ luna.pc = "ack"
  /\ luna' = [luna EXCEPT !.pc = "llm", !.requests = @ + 1, !.ack = "Thinking"]
  /\ UNCHANGED <<schedVars, relay, chunker>>

\* it rejects: the outer catch replies 'Error while executing command.'
AckFail ==
  /\ luna.pc = "ack"
  /\ luna' = [luna EXCEPT !.pc = "notice", !.err = "discord"]
  /\ UNCHANGED <<schedVars, relay, chunker>>

\* await ollamaChat(...) resolves with the content of the answer; it is
\* split, and the prompt is sent
LlmOk(content) ==
  /\ luna.pc = "llm"
  /\ luna' = [luna EXCEPT !.content = content,
                          !.chunks = chunkDiscordMessage(content, DefaultMaxLen),
                          !.pc = "prompt"]
  /\ UNCHANGED <<schedVars, relay, chunker>>

\* the request fails: ollamaChat throws and the catch of the handler edits
\* the ephemeral reply to 'LLM error: ...'
LlmFailed(failure) ==
  /\ luna.pc = "llm"
  /\ luna' = IF AfterFailure(luna.requests, failure) = "retry"
             THEN [luna EXCEPT !.requests = @ + 1]
             ELSE [luna EXCEPT !.pc = "report", !.err = failure]
  /\ UNCHANGED <<schedVars, relay, chunker>>

\* const promptMsg = await interaction.channel.send(...) resolves
PromptOk ==
  /\ luna.pc = "prompt"
  /\ luna' = [luna EXCEPT !.msgs = Append(@, [segment |-> luna.q, k |-> 0, replyTo |-> 0]),
                          !.promptMsg = Len(luna.msgs) + 1, !.pc = "first"]
  /\ UNCHANGED <<schedVars, relay, chunker>>

\* where the handler stands after it has posted chunks[0..i-1]
AfterPost(i) == IF i < Len(luna.chunks) THEN "next" ELSE "done"

\* const first = await promptMsg.reply(...) resolves
FirstOk ==
  /\ luna.pc = "first"
  /\ luna' = [luna EXCEPT
       !.msgs = Append(@, [segment |-> IF luna.chunks # <<>> /\ luna.chunks[1] # <<>>
                                      THEN luna.chunks[1] ELSE EmptyResponse,
                           k |-> 1, replyTo |-> luna.promptMsg]),
       !.first = Len(luna.msgs) + 1, !.i = 1, !.pc = AfterPost(1)]
  /\ UNCHANGED <<schedVars, relay, chunker>>

\* await first.reply({ content: styleAnsi(chunks[i], ...) }) resolves; i++
NextOk ==
  /\ luna.pc = "next"
  /\ luna' = [luna EXCEPT
       !.msgs = Append(@, [segment |-> luna.chunks[luna.i + 1], k |-> luna.i + 1,
                           replyTo |-> luna.first]),
       !.i = @ + 1, !.pc = AfterPost(luna.i + 1)]
  /\ UNCHANGED <<schedVars, relay, chunker>>

\* a send or a reply rejects: the catch of the handler edits the ephemeral
\* reply to 'LLM error: ...'
PostFail ==
  /\ luna.pc \in {"prompt", "first", "next"}
  /\ luna' = [luna EXCEPT !.pc = "report", !.err = "discord"]
  /\ UNCHANGED <<schedVars, relay, chunker>>

\* await interaction.editReply('LLM error: ' + ...) resolves
ReportOk ==
  /\ luna.pc = "report"
  /\ luna' = [luna EXCEPT !.pc = "done", !.ack = "LLM error"]
  /\ UNCHANGED <<schedVars, relay, chunker>>

\* it rejects: the outer catch follows up 'Error while executing command.'
ReportFail ==
  /\ luna.pc = "report"
  /\ luna' = [luna EXCEPT !.pc = "notice"]
  /\ UNCHANGED <<schedVars, relay, chunker>>

\* the reply or followUp of the outer catch resolves
NoticeOk ==
  /\ luna.pc = "notice"
  /\ luna' = [luna EXCEPT !.pc = "done", !.notice = TRUE]
  /\ UNCHANGED <<schedVars, relay, chunker>>

\* it rejects: the rejection leaves the handler
NoticeFail ==
  /\ luna.pc = "notice"
  /\ luna' = [luna EXCEPT !.pc = "unhandled"]
  /\ UNCHANGED <<schedVars, relay, chunker>>

\* every answer of at most MaxContent characters
ContentInputs == SeqsUpTo({"a", " "}, MaxContent)

LunaNext ==
  \/ /\ luna.pc = "idle"
     /\ \E kind \in LunaKinds, q \in QInputs : Invoke(kind, q)
  \/ AckOk
  \/ AckFail
  \/ /\ luna.pc = "llm"
     /\ \E content \in ContentInputs : LlmOk(content)
  \/ \E failure \in FailureInputs : LlmFailed(failure)
  \/ PromptOk
  \/ FirstOk
  \/ NextOk
  \/ PostFail
  \/ ReportOk
  \/ ReportFail
  \/ NoticeOk
  \/ NoticeFail

LunaSpec == Init /\ [][LunaNext]_vars

\* ---------------------------------------------------------------- claims
\* the fire instant a stored row stands for, read back from its ISO text
RunAt(r) ==
  LET t == r.run_at_iso
      Val(k) == 10 * DigitVal(t[k]) + DigitVal(t[k + 1])
  IN IF t[1] = "+" THEN Val(4)
     ELSE IF t[1] = "-" THEN 0 - Val(4)
     ELSE Val(1)

Rows == 1..Len(reminders)

Delivered(i) == reminders[i].delivered

TickRows == Range(lastTick.rows)

\* C1 as stated: across any interleaving of ticks and delivery completions,
\* overlapping ticks included, the message of a reminder is sent at most once.
C1_SentAtMostOnce == \A i \in Ids : posted[i] <= 1

\* C1, amended: no message of a reminder is sent before the send that marks
\* it delivered, and once it is marked delivered no tick starts another
\* delivery of it, so the only further sends are by deliveries that were
\* already in flight (started by overlapping ticks) when the flag was set.
C1_NoDeliveryStartedAfterMark ==
  [][\A i \in Rows :
       /\ ~Delivered(i) => posted[i] = 0
       /\ Delivered(i) => posted'[i] + InflightOf(i)' <= posted[i] + InflightOf(i)]_vars

\* C1 witness: overlapping ticks have sent the message of one reminder twice
C1_DuplicateSent == \E i \in Rows : posted[i] = 2 /\ Delivered(i)

\* C2: a reminder whose delivered flag is true has had a send to its channel
\* complete successfully beforehand.
C2_DeliveredOnlyAfterSend == \A i \in Rows : Delivered(i) => posted[i] >= 1

\* C2 witness: a reminder is delivered after an earlier delivery of it failed
C2_DeliveredAfterFailure ==
  \E i \in Rows : Delivered(i) /\ posted[i] = 1 /\ lastFailed = i

\* C3 as stated: a tick at instant now starts a delivery for exactly the
\* rows with delivered=false and run_at <= now and changes no row, a row
\* with run_at > now gets no delivery; a row whose send succeeds becomes
\* delivered.
C3_TickDeliversExactlyDue ==
  [][/\ ev'.kind = "tick" =>
          LET due == {i \in Rows : ~Delivered(i) /\ RunAt(reminders[i]) <= now}
          IN /\ Range(lastTick'.rows) = due
             /\ Len(lastTick'.rows) = Cardinality(due)
             /\ inflight' = inflight (+)
                  SetToBag({Task(i, reminders[i].channel_id, "fetch") : i \in due})
             /\ reminders' = reminders
     /\ ev'.kind = "sent" =>
          \A i \in Rows : posted'[i] > posted[i] => reminders'[i].delivered]_vars

\* C4: a failed delivery leaves the stored rows unchanged, and every later
\* tick selects the reminder again for as long as it is not delivered.
C4_FailureIsRetried ==
  [][/\ ev'.kind = "failed" => reminders' = reminders
     /\ (ev'.kind = "tick" /\ lastFailed # 0 /\ ~Delivered(lastFailed))
          => lastFailed \in Range(lastTick'.rows)]_vars

\* C4 witness: a tick has selected again a reminder whose delivery had failed
C4_RetriedAfterFailure ==
  /\ ev.kind = "tick" /\ lastFailed # 0
  /\ lastFailed \in TickRows /\ lastFailed \in Range(ev.prev.rows)

\* C5: a delivery failure removes the failed delivery alone: the deliveries
\* of the other rows stay in flight and the interval stays installed.
C5_FailureIsIsolated ==
  [][/\ ev'.kind = "failed" =>
          /\ timer'
          /\ \E t \in BagToSet(inflight) :
               t.id = lastFailed' /\ inflight' = inflight (-) SetToBag({t})
     /\ ev'.kind = "tick" => \A i \in Range(lastTick'.rows) : InflightOf(i)' > InflightOf(i)
     /\ timer => timer']_vars

\* C5 witness: of two rows of one tick one has failed, the other is in flight
C5_OtherStillInFlight ==
  /\ ev.kind = "failed" /\ timer
  /\ \E j \in TickRows : j # lastFailed /\ lastFailed \in TickRows /\ InflightOf(j) > 0

\* C6: a second tick with the same now starts no delivery for a reminder
\* that the first tick selected and that has been delivered since.
C6_TickIdempotent ==
  [][(ev'.kind = "tick" /\ lastTick.nowISO = ToISO(now)) =>
       \A i \in TickRows :
         Delivered(i) => i \notin Range(lastTick'.rows) /\ InflightOf(i)' = InflightOf(i)]_vars

\* C6 witness: the second tick has skipped a delivered reminder of the first
C6_SecondTickSkipped ==
  /\ ev.kind = "tick" /\ ev.prev.nowISO = lastTick.nowISO
  /\ \E i \in Range(ev.prev.rows) : Delivered(i) /\ i \notin TickRows

\* C7: under fair ticking, with deliveries that do not fail forever, every
\* stored reminder whose fire instant has passed is eventually marked
\* delivered, overlapping ticks included; and every due-query selects every
\* reminder that is due and not marked delivered.
C7_NoReminderLost ==
  /\ \A i \in 1..LiveReminders :
       (i \in Rows /\ ~Delivered(i) /\ RunAt(reminders[i]) <= now)
         ~> (i \in Rows /\ Delivered(i))
  /\ [][ev'.kind = "tick" =>
         \A i \in Rows :
           (~Delivered(i) /\ RunAt(reminders[i]) <= now) => i \in Range(lastTick'.rows)]_vars

\* C7 witness: a reminder was delivered after a failed delivery of it, while
\* a delivery started by an overlapping tick is still in flight
C7_DeliveredDespiteOverlap ==
  \E i \in Rows : Delivered(i) /\ lastFailed = i /\ posted[i] >= 1 /\ InflightOf(i) > 0

\* C8: no row is removed, a new row starts undelivered, and the delivered
\* flag of a row never goes back from true to false.
C8_DeliveredMonotonic ==
  [][/\ Len(reminders') >= Len(reminders)
     /\ \A i \in Rows :
          /\ Delivered(i) => reminders'[i].delivered
          /\ reminders'[i].run_at_iso = reminders[i].run_at_iso
          /\ reminders'[i].channel_id = reminders[i].channel_id
     /\ \A i \in 1..Len(reminders') : i > Len(reminders) => ~reminders'[i].delivered]_vars

\* C8 witness: a row was marked delivered twice, and a row was added after it
C8_MarkedTwice ==
  \E i \in Rows : posted[i] = 2 /\ Delivered(i) /\ Len(reminders) > i

\* C9 as stated: the deliveries of a tick are started in ascending order of
\* fire instant.
C9_AscendingFireOrder ==
  \A a, b \in 1..Len(lastTick.rows) :
    a < b => RunAt(reminders[lastTick.rows[a]]) <= RunAt(reminders[lastTick.rows[b]])

\* the local time a `when` string denotes, or -1 when it denotes none
LocalHour(when) ==
  IF Len(when) = 2 /\ (\A k \in 1..2 : when[k] \in Range(DigitChars))
  THEN LET h == 10 * DigitVal(when[1]) + DigitVal(when[2]) IN IF h <= 24 THEN h ELSE -1
  ELSE -1

\* the local time of every `when` string a request may carry
WhenHour == [w \in WhenInputs |-> LocalHour(w)]

\* the reply of the /remind handler to every `when` string, in every zone
\* and at every hour
ReplyOf ==
  [tz \in TZInputs \cup {DEFAULT_TZ}, when \in WhenInputs, n \in StartTime..MaxTime |->
     RemindReply(FromFormat(when, tz), n)]

\* C10: a /remind whose time string does not parse, or whose local time is
\* before now in the user's zone, is answered with that error and stores nothing.
C10_RejectPersistsNothing ==
  [][ev'.kind = "remind" =>
       \A u \in Users, when \in WhenInputs :
         \/ WhenHour[when] >= now + ZoneOffset(UserZone(u))
         \/ /\ ev'.reply = IF WhenHour[when] = -1 THEN "parse_error" ELSE "past"
            /\ reminders' = reminders
         \/ ReplyOf[UserZone(u), when, now] # ev'.reply
         \/ \A c \in Channels : ~Remind(u, c, when)]_vars

\* C10 witness: a past-time request was rejected while the table holds a row
C10_PastRejected == ev.kind = "remind" /\ ev.reply = "past" /\ Len(reminders) = 1

\* C11 as stated: /remind accepts a request only when its resolved instant is
\* strictly after the current instant; a request whose resolved instant
\* equals the current instant is answered with the past-time error and
\* stores nothing.
C11_AcceptedOnlyStrictlyAfter ==
  [][ev'.kind = "remind" =>
       /\ ev'.reply = "saved" => RunAt(reminders'[Len(reminders')]) > now
       /\ ev'.reply # "saved" => reminders' = reminders]_vars

\* ------------------------------------------------------- claims: relay
\* the event kind of a frame: message when the frame has no event line
KindOf(f) == IF f.kind = "" THEN "message" ELSE f.kind

IsTerminal(f) == KindOf(f) \in {"done", "error"}

\* a data line without its optional leading space
StripOne(d) == IF d # <<>> /\ d[1] = " " THEN Tail(d) ELSE d

\* the payload of a frame: its data lines joined with newlines
RECURSIVE PayloadOf(_)
PayloadOf(datas) ==
  IF datas = <<>> THEN <<>>
  ELSE StripOne(Head(datas)) \o (IF Len(datas) > 1 THEN <<"\n">> \o PayloadOf(Tail(datas)) ELSE <<>>)

\* position of the first terminal frame, Len + 1 when there is none
FirstTerminal(fs) ==
  IF \E k \in 1..Len(fs) : IsTerminal(fs[k])
  THEN CHOOSE k \in 1..Len(fs) : IsTerminal(fs[k]) /\ \A j \in 1..(k - 1) : ~IsTerminal(fs[j])
  ELSE Len(fs) + 1

\* the non-empty payloads of the first n frames, in order
RECURSIVE Payloads(_, _)
Payloads(fs, n) ==
  IF n = 0 THEN <<>>
  ELSE Payloads(fs, n - 1) \o
       (IF PayloadOf(fs[n].datas) # <<>> THEN <<PayloadOf(fs[n].datas)>> ELSE <<>>)

\* the fragments the claims expect of a body: the payloads before its first
\* terminal frame
ExpectedFragments == Payloads(relay.frames, FirstTerminal(relay.frames) - 1)

IsPrefix(a, b) == Len(a) <= Len(b) /\ SubSeq(b, 1, Len(a)) = a

\* the fragments yielded so far, the fallback fragments left out
YieldedPayloads == SelectSeq(relay.out, LAMBDA x : x # FallbackText)

\* C12 as stated: for a body of complete frames the relay yields, in order,
\* exactly the non-empty payloads of the frames before the first terminal
\* (done/error) frame; a payload is the data lines of a frame joined with
\* newlines, each without "data:" and one optional leading space; a frame
\* without event line is a message frame.
C12_YieldsPayloadsBeforeTerminal ==
  (relay.pc \in {"read", "yield", "returned"} /\ relay.tail = <<>>) =>
     /\ IsPrefix(YieldedPayloads, ExpectedFragments)
     /\ (relay.pc = "returned" /\ ~relay.stopped) => YieldedPayloads = ExpectedFragments

\* C13 as stated: on a frame of kind error the relay yields one fallback
\* fragment and then terminates; the payload of the error frame is not
\* yielded and no later frame produces a fragment.
C13_ErrorFrameEndsWithFallback ==
  LET t == FirstTerminal(relay.frames)
  IN (relay.pc \in {"read", "yield", "returned"} /\ t <= Len(relay.frames)
        /\ relay.frames[t].kind = "error") =>
       /\ IsPrefix(relay.out, ExpectedFragments \o <<FallbackText>>)
       /\ (relay.seen >= t /\ relay.pc # "yield") =>
            relay.pc = "returned" /\ relay.out = ExpectedFragments \o <<FallbackText>>

\* C14: when the relay reads a frame of kind done the generator returns at
\* once: that frame yields nothing, and after the return no fragment is
\* yielded, whatever is still in the buffer or on the network.
C14_DoneTerminates ==
  [][/\ (relay'.seen = relay.seen + 1 /\ relay.frames[relay'.seen].kind = "done")
          => relay'.pc = "returned" /\ relay'.out = relay.out
     /\ relay.pc = "returned" => relay'.pc = "returned" /\ relay'.out = relay.out]_vars

\* C14 witness: the relay has returned at a done frame while a frame with a
\* payload is still waiting behind it
C14_ReturnedBeforeLaterFrame ==
  /\ relay.pc = "returned" /\ relay.seen >= 1 /\ relay.seen < Len(relay.frames)
  /\ relay.frames[relay.seen].kind = "done"
  /\ PayloadOf(relay.frames[relay.seen + 1].datas) # <<>>
  /\ relay.buf # <<>>

\* the body the upstream sent
SentBody == Body(relay.frames, relay.tail)

\* C15: when the upstream answers with a status that is not 2xx the call
\* fails with an error that carries the status and the body text (empty when
\* the body could not be read); no fragment is yielded and nothing of the
\* body is parsed.
C15_NonOkFailsBeforeFragments ==
  (relay.pc \notin {"idle", "fetch"} /\ ~(relay.status \in 200..299)
     /\ relay.err.kind \notin {"abort", "network"}) =>
    /\ relay.pc \in {"text", "thrown"}
    /\ relay.out = <<>> /\ relay.buf = <<>> /\ relay.seen = 0
    /\ relay.pc = "thrown" =>
         /\ relay.err.kind = "http" /\ relay.err.status = relay.status
         /\ relay.err.body = IF relay.err.read THEN SentBody ELSE <<>>

\* C15 witness: the call has failed on a 500 whose body holds a message frame
C15_FailedWithBody ==
  /\ relay.pc = "thrown" /\ relay.err.kind = "http" /\ relay.err.status = 500
  /\ relay.err.body = SentBody
  /\ \E k \in 1..Len(relay.frames) : PayloadOf(relay.frames[k].datas) # <<>>

\* C16 as stated: when a call has a timeout greater than zero and the
\* timeout elapses while the request, the reading of the response body
\* included, is in progress, the request is aborted and the call fails.
C16_TimeoutAborts ==
  relay.elapsedAt # "none" => relay.aborted /\ relay.pc = "thrown"

\* C17: when the body ends with bytes after the last blank-line delimiter,
\* the end of the stream yields no fragment for them and the generator
\* returns without an error.
C17_TrailingPartialDropped ==
  [][(relay.pc = "read" /\ relay.net = <<>> /\ relay.tail # <<>>
        /\ relay.seen = Len(relay.frames) /\ relay'.pc # "read") =>
       \/ relay'.pc = "returned" /\ relay'.out = relay.out /\ relay'.err = NoError
       \/ relay'.pc = "thrown" /\ relay'.out = relay.out /\ relay'.err.kind = "network"]_vars

\* C17 witness: the relay has returned with a partial frame left in its
\* buffer, after yielding the fragments of the complete frames
C17_ReturnedWithPartialFrame ==
  /\ relay.pc = "returned" /\ ~relay.stopped /\ relay.net = <<>> /\ relay.tail # <<>>
  /\ relay.buf = relay.tail /\ relay.out # <<>> /\ relay.err = NoError

\* ----------------------------------------------------- claims: chunker
RECURSIVE Concat(_)
Concat(ss) == IF ss = <<>> THEN <<>> ELSE Head(ss) \o Concat(Tail(ss))

\* the characters of a text that are not whitespace, in order
NonWhitespace(s) == SelectSeq(s, LAMBDA c : c \notin {" ", "\n"})

\* C18: every segment chunkDiscordMessage returns, for every text and
\* every maxLen >= 1, is at most maxLen long.
C18_SegmentsFit ==
  \A k \in 1..Len(chunker.chunks) : Len(chunker.chunks[k]) <= chunker.maxLen

\* C18 witness: a call has returned three segments or more of a text longer
\* than maxLen, one of them exactly maxLen long
C18_LongTextSplit ==
  /\ chunker.pc = "done" /\ Len(chunker.chunks) >= 3 /\ chunker.maxLen >= 2
  /\ \E k \in 1..Len(chunker.chunks) : Len(chunker.chunks[k]) = chunker.maxLen

\* C19: the segments, concatenated in order, hold exactly the
\* non-whitespace characters of the text in their order (at every step:
\* the segments pushed and the text still to split do); the version of
\* llm/ollama.js removes nothing at all.
C19_ContentPreserved ==
  chunker.pc \in {"loop", "done"} =>
    /\ NonWhitespace(Concat(chunker.chunks) \o chunker.segment \o Concat(chunker.paras))
         = NonWhitespace(chunker.text)
    /\ (chunker.pc = "done" /\ chunker.version = "llm/ollama.js")
         => Concat(chunker.chunks) = chunker.text

\* C19 witness: a call of the part_001 version has returned two segments or
\* more that hold both letters and that lost whitespace at a cut
C19_TrimmedAtCut ==
  /\ chunker.pc = "done" /\ chunker.version = "unnamed/part_001"
  /\ Len(chunker.chunks) >= 2
  /\ Len(Concat(chunker.chunks)) < Len(chunker.text)
  /\ \E i, j \in 1..Len(chunker.text) : chunker.text[i] = "a" /\ chunker.text[j] = "b"

\* C20 as stated: for an empty text chunkDiscordMessage returns exactly
\* one segment, the empty string, and for every text it returns at least
\* one element.
C20_AtLeastOneSegment ==
  chunker.pc = "done" =>
    /\ Len(chunker.chunks) >= 1
    /\ chunker.text = <<>> => chunker.chunks = << <<>> >>

\* the cut indices C21 allows for a text longer than maxLen: the paragraph
\* breaks of the window MinFill(maxLen)..maxLen when it holds one, else its
\* line breaks, else its spaces, else maxLen alone
AcceptableCuts(segment, maxLen) ==
  LET W == MinFill(maxLen)..maxLen
      At(pat) == {i \in W : i + Len(pat) <= Len(segment)
                              /\ SubSeq(segment, i + 1, i + Len(pat)) = pat}
  IN IF At(<<"\n", "\n">>) # {} THEN At(<<"\n", "\n">>)
     ELSE IF At(<<"\n">>) # {} THEN At(<<"\n">>)
     ELSE IF At(<<" ">>) # {} THEN At(<<" ">>)
     ELSE {maxLen}

\* the step is an iteration of the splitting loop
IsCutStep == chunker.pc = "loop" /\ Len(chunker'.chunks) = Len(chunker.chunks) + 1
               /\ Len(chunker.segment) > chunker.maxLen

\* C21 as stated: when the remaining text is longer than maxLen the cut is
\* made at a paragraph break of the window (60% of maxLen up to maxLen) if
\* it holds one, otherwise at a line break of the window, otherwise at a
\* space of the window, and at maxLen only when the window holds none of
\* them.  The segment pushed and the text left are compared up to the
\* whitespace around the cut.
C21_CutsAtPreferredBreak ==
  [][IsCutStep =>
       \E e \in AcceptableCuts(chunker.segment, chunker.maxLen) :
         /\ TrimEnd(chunker'.chunks[Len(chunker'.chunks)])
              = TrimEnd(Slice(chunker.segment, 0, e))
         /\ TrimStart(chunker'.segment) = TrimStart(SliceFrom(chunker.segment, e))]_vars

\* a text of space-separated words without line breaks, between 2 and 3
\* times maxLen long, in which every stretch as wide as the cut window
\* (MinFill(maxLen)..maxLen) holds a space
IsScaledWordText(text, maxLen) ==
  LET w == maxLen - MinFill(maxLen)
  IN /\ Len(text) > 2 * maxLen /\ Len(text) <= 3 * maxLen
     /\ \A i \in 1..Len(text) : text[i] # "\n"
     /\ text[1] # " " /\ text[Len(text)] # " "
     /\ \A i \in 1..(Len(text) - 1) : ~(text[i] = " " /\ text[i + 1] = " ")
     /\ \A i \in 1..(Len(text) - w) : \E j \in i..(i + w) : text[j] = " "

\* C22 as stated: for a text of space-separated words without line breaks,
\* between 2 and 3 times maxLen long and with a space in each cut window
\* (5000 characters with maxLen 1900, scaled), chunkDiscordMessage returns
\* exactly 3 segments, none longer than maxLen, and each of the first two
\* ends with a space.
C22_ThreeSegmentsEndingInSpace ==
  (chunker.pc = "done" /\ IsScaledWordText(chunker.text, chunker.maxLen)) =>
    /\ Len(chunker.chunks) = 3
    /\ \A k \in 1..3 : Len(chunker.chunks[k]) <= chunker.maxLen
    /\ \A k \in 1..2 : chunker.chunks[k][Len(chunker.chunks[k])] = " "

\* what is left for the splitting loops to do: the characters still to
\* split, and one for each paragraph still to push
Remaining ==
  IF chunker.pc # "loop" THEN 0
  ELSE Len(chunker.segment) + Len(Concat(chunker.paras)) + Len(chunker.paras) + 1

\* C26: chunkDiscordMessage terminates for every text and every
\* maxLen >= 1: every iteration of the splitting loop strictly shortens the
\* remaining text, every step of the call lessens what is left to do, and
\* an iteration pushes an empty segment (a cut at index 0, or in leading
\* whitespace) only when the remaining text starts with whitespace.
C26_EachIterationShortens ==
  [][/\ chunker.pc = "loop" => Remaining' < Remaining
     /\ IsCutStep =>
          /\ Len(chunker'.segment) < Len(chunker.segment)
          /\ chunker'.chunks[Len(chunker'.chunks)] = <<>>
               => chunker.segment[1] \in {" ", "\n"}
     /\ chunker.pc = "done" => chunker' = chunker]_vars

\* C26 witness: a call with maxLen 1 has returned after cutting at index 0
\* of a text that starts with whitespace
C26_ReturnedAfterCutAtZero ==
  /\ chunker.pc = "done" /\ chunker.version = "unnamed/part_001" /\ chunker.maxLen = 1
  /\ Len(chunker.chunks) >= 2 /\ chunker.chunks[1] = <<>>
  /\ chunker.text[1] = " " /\ Len(chunker.text) >= 3

\* C27 as stated: for a non-empty text chunkDiscordMessage returns no empty
\* segment, also when a cut window holds only whitespace.
C27_NoEmptySegment ==
  chunker.text # <<>> => \A k \in 1..Len(chunker.chunks) : chunker.chunks[k] # <<>>

\* the fragments the read loop yields when a whole text arrives at once
RECURSIVE FragmentsOf(_, _)
FragmentsOf(buf, out) ==
  LET sep == IndexOfBlankLine(buf)
      f == ParseFrame(Slice(buf, 0, sep))
      e == EmitFrame(f.event, f.payload)
  IN IF sep = -1 THEN out
     ELSE IF e.return THEN out \o e.frags
     ELSE FragmentsOf(SliceFrom(buf, sep + 2), out \o e.frags)

\* the bytes of the body
SentBytes == Utf8(SentBody)

\* C25: the fragments lunaChatStream yields depend only on the concatenated
\* bytes of the body, not on how the reads split them: at every moment they
\* are the first fragments of the body read at once, never more than the
\* frames whose delimiter has been received give, exactly those once the
\* buffer holds no complete frame, and all of them when the call returns
\* (unless the consumer ended it before).
C25_FragmentsIndependentOfReads ==
  /\ relay.out # <<>> => IsPrefix(relay.out, FragmentsOf(TextOf(SentBytes), <<>>))
  /\ relay.pc \in {"read", "yield", "returned"} =>
       LET got == FragmentsOf(Decode(<<>>, relay.recv).text, <<>>)
       IN /\ relay.recv \o relay.net = SentBytes
          /\ IsPrefix(relay.out, got)
          /\ (\/ relay.pc = "returned" /\ ~relay.stopped
              \/ relay.pc = "read" /\ IndexOfBlankLine(relay.buf) = -1) => relay.out = got
  /\ (relay.pc = "returned" /\ ~relay.stopped)
       => relay.out = FragmentsOf(TextOf(SentBytes), <<>>)

\* C25 witness: after a fragment was yielded, a read has ended between the
\* two line breaks of the delimiter of the next frame, one that holds the
\* two-byte character
C25_DelimiterSplitAcrossReads ==
  /\ relay.pc = "read" /\ relay.out # <<>>
  /\ relay.buf # <<>> /\ relay.buf[Len(relay.buf)] = "\n"
  /\ IndexOfBlankLine(relay.buf) = -1
  /\ relay.net # <<>> /\ relay.net[1] = "\n"
  /\ \E i \in 1..Len(relay.buf) : relay.buf[i] = "U+E9"

\* C23 as stated: the segments are posted in order, and every segment after
\* the first is posted as a reply to the message that carries the segment
\* before it.
C23_SegmentRepliesToPrevious ==
  \A n \in 1..Len(luna.msgs) :
    luna.msgs[n].k >= 2 =>
      /\ luna.msgs[n - 1].k = luna.msgs[n].k - 1
      /\ luna.msgs[n].replyTo = n - 1

\* C24: one /luna or Ask Luna interaction sends at most one request to the
\* LLM service; when the request fails the handler posts no answer and
\* shows the user a failure message.
C24_FailedCallNotRetried ==
  /\ luna.requests <= 1
  /\ luna.err \in FailureInputs =>
       /\ luna.pc \in {"report", "notice", "done", "unhandled"}
       /\ luna.msgs = <<>>
       /\ luna.pc = "done" => (luna.ack = "LLM error" \/ luna.notice)

\* C24 witness: an interaction has ended with 'LLM error: ...' after its one
\* request was answered with a status that is not ok
C24_FailureShown ==
  /\ luna.pc = "done" /\ luna.err = "http" /\ luna.requests = 1
  /\ luna.ack = "LLM error" /\ ~luna.notice
====
